---- MODULE Spec2Model ----
(***************************************************************************)
(* Sentiment analysis notebook (chapter07-rnn/sentiment_analysis.ipynb):   *)
(* model initialisation, train_model, test_model and the five-epoch        *)
(* driver, as a state machine whose program counter walks the statements   *)
(* of the notebook.                                                        *)
(*                                                                         *)
(* Tensors are modelled by their shape and by small integers standing for  *)
(* their floating point entries.  The layers of the framework             *)
(* (Embedding, pack_padded_sequence, LSTM, Linear, BCEWithLogitsLoss,      *)
(* Adam, autograd) are modelled by what the notebook relies on: which      *)
(* inputs they read, which state they write, which shape they return and   *)
(* when they raise.                                                        *)
(***************************************************************************)
EXTENDS Integers, Sequences, FiniteSets

(* ------------------------------ bounds -------------------------------- *)
\* largest number of reviews in a split
MaxN == 5
\* longest review, in tokens
MaxLen == 3
\* len(TEXT.vocab), specials included
VocabSize == 4
\* the hidden state of the recurrent cell lives in -PMax..PMax
PMax == 2
\* rows of extra padding tried when a batch is padded differently
MaxExtraPad == 1

\* EMBEDDING_SIZE (100 in the notebook), scaled down
EMBEDDING_SIZE == 2
\* batch_size of the iterators (64 in the notebook), scaled down
BatchSize == 3

(* ------------------------- program constants -------------------------- *)
\* for epoch in range(5)
NumEpochs == 5
\* TEXT.vocab.stoi[TEXT.unk_token]
unk_idx == 0
\* TEXT.vocab.stoi[TEXT.pad_token]
pad_idx == 1

Vocab == 0..(VocabSize - 1)
Dims == 1..EMBEDDING_SIZE

(* ------------------------------ helpers ------------------------------- *)
Clamp(x) == IF x > PMax THEN PMax ELSE IF x < -PMax THEN -PMax ELSE x

Sign(x) == IF x > 0 THEN 1 ELSE IF x < 0 THEN -1 ELSE 0

\* a / b rounded towards zero
DivTrunc(a, b) == IF a >= 0 THEN a \div b ELSE -((-a) \div b)

RECURSIVE SeqSum(_)
SeqSum(s) == IF s = <<>> THEN 0 ELSE Head(s) + SeqSum(Tail(s))

Max2(a, b) == IF a > b THEN a ELSE b

RECURSIVE SeqMax(_)
SeqMax(s) == IF s = <<>> THEN 0 ELSE Max2(Head(s), SeqMax(Tail(s)))

Reverse(s) == [i \in 1..Len(s) |-> s[Len(s) + 1 - i]]

\* torch.zeros(EMBEDDING_SIZE)
Zeros == [d \in Dims |-> 0]

(* ------------------------------ dataset ------------------------------- *)
\* The i-th review of a split: a token sequence of 1..MaxLen tokens and a
\* binary label.  Tokens are vocabulary indices; unk_idx occurs in texts,
\* pad_idx never does (padding is added by the iterator only).
ReviewLen(i) == 1 + ((i * (MaxLen - 1)) % MaxLen)

ReviewTok(i, t) ==
    LET k == (i + t) % (VocabSize - 1)
    IN  IF k = 0 THEN unk_idx ELSE k + 1

Review(i) ==
    [text  |-> [t \in 1..ReviewLen(i) |-> ReviewTok(i, t)],
     label |-> i % 2]

\* train, test = torchtext.datasets.IMDB.splits(TEXT, LABEL)
TrainSet(n) == [i \in 1..n |-> Review(i)]
TestSet(n) == [i \in 1..n |-> Review(i + MaxN)]

\* TEXT.vocab.vectors: the pretrained table, one row per vocabulary index.
\* Two tables are tried; in both the rows of the specials are not zero, so
\* that zeroing them is an observable step.
Pretrained(s) ==
    [v \in Vocab |-> [d \in Dims |-> ((v + d + s) % 3) - 1]]

PretrainedTables == {Pretrained(0), Pretrained(1)}

\* torch.nn.Embedding(..., padding_idx=pad_idx): rows drawn at random, the
\* row of padding_idx set to zero.
FreshEmbedding ==
    [v \in Vocab |-> IF v = pad_idx THEN Zeros ELSE [d \in Dims |-> 1]]

(* ------------------------------ iterator ------------------------------ *)
\* sort key of the IMDB dataset: len(ex.text)
RECURSIVE InsertBy(_, _, _)
InsertBy(x, s, data) ==
    IF s = <<>> THEN <<x>>
    ELSE IF Len(data[x].text) < Len(data[Head(s)].text)
         THEN <<x>> \o s
         ELSE <<Head(s)>> \o InsertBy(x, Tail(s), data)

\* sorted(p, key=sort_key): the ids of p in ascending length, stable
RECURSIVE SortAsc(_, _)
SortAsc(p, data) ==
    IF p = <<>> THEN <<>>
    ELSE InsertBy(p[Len(p)], SortAsc(SubSeq(p, 1, Len(p) - 1), data), data)

RECURSIVE InsertByDesc(_, _, _)
InsertByDesc(x, s, data) ==
    IF s = <<>> THEN <<x>>
    ELSE IF Len(data[x].text) > Len(data[Head(s)].text)
         THEN <<x>> \o s
         ELSE <<Head(s)>> \o InsertByDesc(x, Tail(s), data)

\* minibatch.sort(key=sort_key, reverse=True): descending length, stable
RECURSIVE SortDesc(_, _)
SortDesc(p, data) ==
    IF p = <<>> THEN <<>>
    ELSE InsertByDesc(p[Len(p)], SortDesc(SubSeq(p, 1, Len(p) - 1), data), data)

\* torchtext batch(data, k): consecutive chunks of k, the last shorter
RECURSIVE ChunksOf(_, _)
ChunksOf(s, k) ==
    IF s = <<>> THEN <<>>
    ELSE IF Len(s) <= k THEN <<s>>
         ELSE <<SubSeq(s, 1, k)>> \o ChunksOf(SubSeq(s, k + 1, Len(s)), k)

\* batch(data, batch_size)
Chunks(s) == ChunksOf(s, BatchSize)

\* the orders a random shuffle can put the elements of S in
RECURSIVE Shuffles(_)
Shuffles(S) ==
    IF S = {} THEN {<<>>}
    ELSE UNION {{<<x>> \o p : p \in Shuffles(S \ {x})} : x \in S}

\* The test iterator (train=False, so sort=True and no shuffle): the dataset
\* sorted by length, cut into minibatches, each minibatch reversed
\* (sort_within_batch=True).
Minibatches(n, data) ==
    LET cs == Chunks(SortAsc([i \in 1..n |-> i], data))
    IN  [k \in 1..Len(cs) |-> Reverse(cs[k])]

\* the minibatches of one chunk p of pool(), in every order the shuffle of
\* the minibatches can give; each is sorted by descending length
\* (sort_within_batch=True)
PoolBatches(p, data) ==
    LET cs == Chunks(SortAsc(p, data))
    IN  {[k \in 1..Len(cs) |-> SortDesc(cs[o[k]], data)] :
            o \in Shuffles(1..Len(cs))}

\* the minibatches of the chunks ps of pool(), chunk after chunk
RECURSIVE PoolSeqs(_, _)
PoolSeqs(ps, data) ==
    IF ps = <<>> THEN {<<>>}
    ELSE {a \o b : a \in PoolBatches(Head(ps), data), b \in PoolSeqs(Tail(ps), data)}

\* The train iterator (train=True, so shuffle and no sort): every epoch the
\* dataset is shuffled and cut into chunks of 100 * batch_size; each chunk
\* is sorted by length (reviews of equal length keep their shuffled order)
\* and cut into minibatches, and the minibatches of the chunk are shuffled.
TrainMinibatches(n, data) ==
    UNION {PoolSeqs(ChunksOf(p, BatchSize * 100), data) : p \in Shuffles(1..n)}

\* len(data_loader)
NumBatches(n) == (n + BatchSize - 1) \div BatchSize

\* Field.process: pad every text of the minibatch with pad_idx to the longest
\* one; batch.text = (text[t][i], lengths[i]), batch.label[i].
MakeBatch(ids, data) ==
    LET lens == [i \in 1..Len(ids) |-> Len(data[ids[i]].text)]
        T == SeqMax(lens)
    IN  [ids     |-> ids,
         text    |-> [t \in 1..T |->
                        [i \in 1..Len(ids) |->
                           IF t <= lens[i] THEN data[ids[i]].text[t] ELSE pad_idx]],
         lengths |-> lens,
         label   |-> [i \in 1..Len(ids) |-> data[ids[i]].label]]

NoBatch == [ids |-> <<>>, text |-> <<>>, lengths |-> <<>>, label |-> <<>>]

(* ------------------------------- state -------------------------------- *)
VARIABLES
    pc,            \* the statement the notebook is about to run
    epoch,         \* the driver's loop variable, 0..NumEpochs
    trainN,        \* len(train_iter.dataset)
    testN,         \* len(test_iter.dataset)
    vectors,       \* TEXT.vocab.vectors
    embedding,     \* model.embedding.weight
    wRnn,          \* model.rnn weights
    wFc,           \* model.fc.weight
    bFc,           \* model.fc.bias
    optState,      \* Adam state: step count and first moment of every
                   \* parameter
    grad,          \* the .grad of fc.bias, fc.weight, the recurrent weights
                   \* and each embedding row
    gradFrom,      \* the batches whose backward pass is summed in grad
    graph,         \* autograd graph of the last forward pass, <<>> when none
    training,      \* model.training
    gradEnabled,   \* torch.is_grad_enabled()
    batches,       \* minibatches the data loader has still to yield
    batchNo,       \* enumerate index of the current batch, from 1
    batch,         \* the current batch
    outputs,       \* model(text, text_lengths).squeeze()
    loss,          \* loss.item()
    current_loss,  \* running loss of the current procedure
    current_acc,   \* running count of correct predictions
    lossWeight,    \* sum of the weights text_lengths.shape[0] used so far
    counted,       \* how often each example entered the statistics
    outLog,        \* the logit each counted example had when it was counted
    report,        \* what the last finished procedure printed
    stepLog,       \* steps train_model has done for the current batch
    fullBatches,   \* batches of this train_model call that got all six steps
    calls          \* the procedures the driver has called, in order

vars == <<pc, epoch, trainN, testN, vectors, embedding, wRnn, wFc, bFc,
          optState, grad, gradFrom, graph, training, gradEnabled, batches,
          batchNo, batch, outputs, loss, current_loss, current_acc,
          lossWeight, counted, outLog, report, stepLog, fullBatches, calls>>

(* ------------------------------- model -------------------------------- *)
\* a packing that ignores text_lengths and keeps every time step
PackAllSteps(embeddings, lengths, i) ==
    [t \in 1..Len(embeddings) |-> embeddings[t][i]]

\* torch.nn.utils.rnn.pack_padded_sequence(embeddings, text_lengths):
\* of column i only the first lengths[i] time steps are kept.
pack_padded_sequence(embeddings, lengths, i) ==
    [t \in 1..lengths[i] |-> embeddings[t][i]]

\* one step of the recurrent cell; the hidden state is bounded
Cell(h, x) == Clamp(wRnn * h + SeqSum(x))

\* self.rnn(packed_sequence): the hidden state after the last packed step
RECURSIVE Rnn(_, _)
Rnn(xs, h) == IF xs = <<>> THEN h ELSE Rnn(Tail(xs), Cell(h, Head(xs)))

\* the final hidden state of every review of the batch:
\* embedding -> pack -> rnn
Hidden(text, lengths) ==
    LET n == Len(lengths)
        embeddings == [t \in 1..Len(text) |-> [i \in 1..n |-> embedding[text[t][i]]]]
    IN  [i \in 1..n |-> Rnn(pack_padded_sequence(embeddings, lengths, i), 0)]

\* LSTMModel.forward: embedding -> pack -> rnn -> fc.  hidden has shape
\* [1, n, hidden], so fc(hidden) has shape [1, n, 1].
Forward(text, lengths) ==
    LET n == Len(lengths)
        hidden == Hidden(text, lengths)
    IN  [shape |-> <<1, n, 1>>,
         data  |-> [i \in 1..n |-> wFc * hidden[i] + bFc]]

\* Tensor.squeeze(): every dimension of size 1 is removed
Squeeze(t) ==
    [shape |-> SelectSeq(t.shape, LAMBDA d : d # 1), data |-> t.data]

\* torch.round(torch.sigmoid(x)): sigmoid(0) = 0.5 rounds to 0 (half to even)
RoundSigmoid(x) == IF x > 0 THEN 1 ELSE 0

\* BCEWithLogitsLoss raises ValueError unless input and target sizes agree
ShapesAgree(out, label) == out.shape = <<Len(label)>>

\* 1000 * sigmoid(x) for an integer x, rounded; it stays off 0 and 1000
SigmoidTable == <<731, 881, 953, 982, 993, 998>>

Sigmoid(x) ==
    LET a == IF x < 0 THEN -x ELSE x
        s == IF a = 0 THEN 500
             ELSE IF a <= Len(SigmoidTable) THEN SigmoidTable[a] ELSE 999
    IN  IF x < 0 THEN 1000 - s ELSE s

\* 1000 * log(1 + exp(z)) for an integer z, rounded
SoftplusTable == <<313, 127, 49, 18, 7, 2, 1>>

Softplus(z) ==
    LET a == IF z < 0 THEN -z ELSE z
        s == IF a = 0 THEN 693
             ELSE IF a <= Len(SoftplusTable) THEN SoftplusTable[a] ELSE 0
    IN  IF z > 0 THEN 1000 * z + s ELSE s

\* the binary cross entropy of one logit: -log sigmoid(x) for a positive
\* label, -log(1 - sigmoid(x)) for a negative one (times 1000)
ExampleLoss(x, y) == Softplus(IF y = 1 THEN -x ELSE x)

\* loss_function(outputs, batch.label): mean over the batch (times 1000)
BCEWithLogitsLoss(out, label) ==
    SeqSum([i \in 1..Len(label) |-> ExampleLoss(out.data[i], label[i])]) \div Len(label)

\* torch.sum(torch.round(torch.sigmoid(outputs)).round() == batch.label.data)
Correct(out, label) ==
    SeqSum([i \in 1..Len(label) |->
              IF RoundSigmoid(out.data[i]) = label[i] THEN 1 ELSE 0])

\* d loss / d logit of one example, sigmoid(x) - y (times 1000): negative
\* for a positive label, positive for a negative one
ExampleGrad(x, y) == Sigmoid(x) - 1000 * y

\* the mean over a batch of n of terms that sum to s, with two more digits
BatchMean(s, n) == DivTrunc(100 * s, n)

\* the gradient of the batch loss in fc.bias: the mean of sigmoid(x) - y
\* (times 100000)
BatchGrad(out, label) ==
    BatchMean(SeqSum([i \in 1..Len(label) |-> ExampleGrad(out.data[i], label[i])]),
              Len(label))

\* d hidden_i / d parameter for the parameters below fc (the LSTM weights,
\* the embedding rows), which backward computes by going back through the
\* LSTM over the packed sequence of review i.  It depends on the tokens of
\* the review and not on its padding; reviews with the same text have the
\* same one, reviews with different texts different ones.  The weighted
\* sum of the tokens stands for it.
Jacobian(text, lengths, i) ==
    LET tokens == pack_padded_sequence(text, lengths, i)
    IN  1 + SeqSum([t \in 1..Len(tokens) |-> t * (tokens[t] + 1)])

\* The gradients one backward pass computes: each is the sum over the
\* reviews of the batch of what the review contributes, so the order of
\* the reviews inside the batch does not matter.
\*   bias:   mean of d_i = sigmoid(x_i) - y_i
\*   weight: mean of d_i * hidden_i
\*   rnn:    mean of d_i * fc.weight * d hidden_i / d weights: nothing
\*           flows back through an fc.weight of zero, reviews of equal
\*           text and opposite d_i cancel, reviews of different texts
\*           do not
\*   rows:   the same, over the reviews that hold the token of the row in
\*           their packed sequence; the row of a token outside the batch,
\*           and the row of padding_idx, get none
Gradients(b, out) ==
    LET n == Len(b.label)
        d == [i \in 1..n |-> ExampleGrad(out.data[i], b.label[i])]
        h == Hidden(b.text, b.lengths)
        back == [i \in 1..n |-> d[i] * wFc * Jacobian(b.text, b.lengths, i)]
        holds(i, v) == \E t \in 1..b.lengths[i] : b.text[t][i] = v
    IN  [bias   |-> BatchGrad(out, b.label),
         weight |-> BatchMean(SeqSum([i \in 1..n |-> d[i] * h[i]]), n),
         rnn    |-> BatchMean(SeqSum(back), n),
         rows   |-> [v \in Vocab |->
                       IF v # pad_idx
                       THEN BatchMean(SeqSum([i \in 1..n |->
                                IF holds(i, v) THEN back[i] ELSE 0]), n)
                       ELSE 0]]

NoGradients == [bias |-> 0, weight |-> 0, rnn |-> 0, rows |-> [v \in Vocab |-> 0]]

\* p.grad += g, parameter by parameter
AddGradients(a, g) ==
    [bias   |-> a.bias + g.bias,
     weight |-> a.weight + g.weight,
     rnn    |-> a.rnn + g.rnn,
     rows   |-> [v \in Vocab |-> a.rows[v] + g.rows[v]]]

\* Adam's exp_avg = beta1 * exp_avg + (1 - beta1) * grad with beta1 = 0.9;
\* m holds 100 * exp_avg, so that a small gradient is not rounded away
Moment(m, g) == m - DivTrunc(m, 10) + 10 * g

NoMoments == [step |-> 0, exp_avg |-> NoGradients]

NoOutputs == [shape |-> <<>>, data |-> <<>>]
NoReport == [proc |-> "none", loss_num |-> 0, acc_num |-> 0, den |-> 1]

(* ---------------------------- initial state --------------------------- *)
\* The state after model = LSTMModel(...): the datasets and the pretrained
\* table are loaded, the layers are freshly constructed.  Both splits hold
\* at least one review; their sizes are otherwise free, so a split may end
\* in a minibatch shorter than batch_size, down to a single review.
Init ==
    /\ pc = "init_copy"
    /\ epoch = 0
    /\ trainN \in 1..MaxN
    /\ testN \in 1..MaxN
    /\ vectors \in PretrainedTables
    /\ embedding = FreshEmbedding
    /\ wRnn = 1
    /\ wFc = 1
    /\ bFc = 0
    /\ optState = NoMoments
    /\ grad = NoGradients
    /\ gradFrom = <<>>
    /\ graph = <<>>
    /\ training = TRUE
    /\ gradEnabled = TRUE
    /\ batches = <<>>
    /\ batchNo = 0
    /\ batch = NoBatch
    /\ outputs = NoOutputs
    /\ loss = 0
    /\ current_loss = 0
    /\ current_acc = 0
    /\ lossWeight = 0
    /\ counted = <<>>
    /\ outLog = <<>>
    /\ report = NoReport
    /\ stepLog = <<>>
    /\ fullBatches = 0
    /\ calls = <<>>

inputVars == <<trainN, testN, vectors>>
modelVars == <<embedding, wRnn, wFc, bFc, optState>>
gradVars == <<grad, gradFrom, graph>>
statVars == <<current_loss, current_acc, lossWeight, counted, outLog>>
iterVars == <<batches, batchNo, batch>>

(* ------------------------- model initialisation ----------------------- *)
\* model.embedding.weight.data.copy_(TEXT.vocab.vectors)
InitCopy ==
    /\ pc = "init_copy"
    /\ embedding' = vectors
    /\ pc' = "init_unk"
    /\ UNCHANGED <<epoch, inputVars, wRnn, wFc, bFc, optState, gradVars, training,
                   gradEnabled, iterVars, outputs, loss, statVars, report,
                   stepLog, fullBatches, calls>>

\* an initialisation that zeroes the padding row twice and never the unknown row
InitZeroUnkWrongRow ==
    /\ pc = "init_unk"
    /\ embedding' = [embedding EXCEPT ![pad_idx] = Zeros]
    /\ pc' = "init_pad"
    /\ UNCHANGED <<epoch, inputVars, wRnn, wFc, bFc, optState, gradVars, training,
                   gradEnabled, iterVars, outputs, loss, statVars, report,
                   stepLog, fullBatches, calls>>

\* model.embedding.weight.data[stoi[unk_token]] = torch.zeros(EMBEDDING_SIZE)
InitZeroUnk ==
    /\ pc = "init_unk"
    /\ embedding' = [embedding EXCEPT ![unk_idx] = Zeros]
    /\ pc' = "init_pad"
    /\ UNCHANGED <<epoch, inputVars, wRnn, wFc, bFc, optState, gradVars, training,
                   gradEnabled, iterVars, outputs, loss, statVars, report,
                   stepLog, fullBatches, calls>>

\* model.embedding.weight.data[stoi[pad_token]] = torch.zeros(EMBEDDING_SIZE)
InitZeroPad ==
    /\ pc = "init_pad"
    /\ embedding' = [embedding EXCEPT ![pad_idx] = Zeros]
    /\ pc' = "setup"
    /\ UNCHANGED <<epoch, inputVars, wRnn, wFc, bFc, optState, gradVars, training,
                   gradEnabled, iterVars, outputs, loss, statVars, report,
                   stepLog, fullBatches, calls>>

(* ------------------------------- driver ------------------------------- *)
\* optimizer = torch.optim.Adam(model.parameters()); loss_function = ...;
\* model = model.to(device)
DriverSetup ==
    /\ pc = "setup"
    /\ optState' = NoMoments
    /\ pc' = "epoch"
    /\ UNCHANGED <<epoch, inputVars, embedding, wRnn, wFc, bFc, gradVars, training,
                   gradEnabled, iterVars, outputs, loss, statVars, report,
                   stepLog, fullBatches, calls>>

\* a driver that builds a new optimizer in every epoch
DriverLoopFreshOptimizer ==
    /\ pc = "epoch"
    /\ IF epoch < NumEpochs
       THEN /\ epoch' = epoch + 1
            /\ pc' = "t_enter"
       ELSE /\ epoch' = epoch
            /\ pc' = "done"
    /\ optState' = NoMoments
    /\ UNCHANGED <<inputVars, embedding, wRnn, wFc, bFc, gradVars, training,
                   gradEnabled, iterVars, outputs, loss, statVars, report, stepLog,
                   fullBatches, calls>>

\* for epoch in range(5): print(f"Epoch {epoch + 1}/5").  The variable
\* epoch of the model holds epoch + 1 of the notebook, 0 before the loop.
DriverLoop ==
    /\ pc = "epoch"
    /\ IF epoch < NumEpochs
       THEN /\ epoch' = epoch + 1
            /\ pc' = "t_enter"
       ELSE /\ epoch' = epoch
            /\ pc' = "done"
    /\ UNCHANGED <<inputVars, modelVars, gradVars, training, gradEnabled,
                   iterVars, outputs, loss, statVars, report, stepLog,
                   fullBatches, calls>>

(* ----------------------------- train_model ---------------------------- *)
\* a train_model that does not call model.train()
TrainEnterNoTrainMode ==
    /\ pc = "t_enter"
    /\ current_loss' = 0
    /\ current_acc' = 0
    /\ lossWeight' = 0
    /\ counted' = [i \in 1..trainN |-> 0]
    /\ outLog' = [i \in 1..trainN |-> 0]
    /\ batches' \in TrainMinibatches(trainN, TrainSet(trainN))
    /\ batchNo' = 0
    /\ batch' = NoBatch
    /\ stepLog' = <<>>
    /\ fullBatches' = 0
    /\ calls' = Append(calls, "train")
    /\ pc' = "t_iter"
    /\ UNCHANGED <<epoch, inputVars, modelVars, gradVars, training, gradEnabled,
                   outputs, loss, report>>

\* model.train(); current_loss = 0.0; current_acc = 0; enumerate(data_loader).
\* The train iterator is shuffled anew in every epoch.
TrainEnter ==
    /\ pc = "t_enter"
    /\ training' = TRUE
    /\ current_loss' = 0
    /\ current_acc' = 0
    /\ lossWeight' = 0
    /\ counted' = [i \in 1..trainN |-> 0]
    /\ outLog' = [i \in 1..trainN |-> 0]
    /\ batches' \in TrainMinibatches(trainN, TrainSet(trainN))
    /\ batchNo' = 0
    /\ batch' = NoBatch
    /\ stepLog' = <<>>
    /\ fullBatches' = 0
    /\ calls' = Append(calls, "train")
    /\ pc' = "t_iter"
    /\ UNCHANGED <<epoch, inputVars, modelVars, gradVars, gradEnabled, outputs,
                   loss, report>>

\* for i, batch in enumerate(data_loader): the next batch
TrainNext ==
    /\ pc = "t_iter"
    /\ batches # <<>>
    /\ batch' = MakeBatch(Head(batches), TrainSet(trainN))
    /\ batches' = Tail(batches)
    /\ batchNo' = batchNo + 1
    /\ stepLog' = <<>>
    /\ pc' = "t_zero"
    /\ UNCHANGED <<epoch, inputVars, modelVars, gradVars, training, gradEnabled,
                   outputs, loss, statVars, report, fullBatches, calls>>

\* a loop that does not reset the gradients
TrainNoZeroGrad ==
    /\ pc = "t_zero"
    /\ stepLog' = Append(stepLog, "zero_grad")
    /\ pc' = "t_forward"
    /\ UNCHANGED <<epoch, inputVars, modelVars, gradVars, training, gradEnabled,
                   iterVars, outputs, loss, statVars, report, fullBatches, calls>>

\* optimizer.zero_grad()
TrainZeroGrad ==
    /\ pc = "t_zero"
    /\ grad' = NoGradients
    /\ gradFrom' = <<>>
    /\ stepLog' = Append(stepLog, "zero_grad")
    /\ pc' = "t_forward"
    /\ UNCHANGED <<epoch, inputVars, modelVars, graph, training, gradEnabled,
                   iterVars, outputs, loss, statVars, report, fullBatches, calls>>

\* text, text_lengths = batch.text; with torch.set_grad_enabled(True):
\*     outputs = model(text, text_lengths).squeeze()
TrainForward ==
    /\ pc = "t_forward"
    /\ gradEnabled' = TRUE
    /\ outputs' = Squeeze(Forward(batch.text, batch.lengths))
    /\ graph' = IF gradEnabled' THEN << <<epoch, batchNo>> >> ELSE <<>>
    /\ stepLog' = Append(stepLog, "forward")
    /\ pc' = "t_loss"
    /\ UNCHANGED <<epoch, inputVars, modelVars, grad, gradFrom, training,
                   iterVars, loss, statVars, report, fullBatches, calls>>

\* loss = loss_function(outputs, batch.label); a ValueError leaves the with
\* block and the procedure, and ends the driver
TrainLoss ==
    /\ pc = "t_loss"
    /\ IF ShapesAgree(outputs, batch.label)
       THEN /\ loss' = BCEWithLogitsLoss(outputs, batch.label)
            /\ stepLog' = Append(stepLog, "loss")
            /\ pc' = "t_backward"
       ELSE /\ loss' = loss
            /\ stepLog' = stepLog
            /\ pc' = "raised"
    /\ UNCHANGED <<epoch, inputVars, modelVars, gradVars, training, gradEnabled,
                   iterVars, outputs, statVars, report, fullBatches, calls>>

\* loss.backward(): the gradients of the graph are added to .grad
TrainBackward ==
    /\ pc = "t_backward"
    /\ grad' = AddGradients(grad, Gradients(batch, outputs))
    /\ gradFrom' = gradFrom \o graph
    /\ graph' = <<>>
    /\ stepLog' = Append(stepLog, "backward")
    /\ pc' = "t_step"
    /\ UNCHANGED <<epoch, inputVars, modelVars, training, gradEnabled, iterVars,
                   outputs, loss, statVars, report, fullBatches, calls>>

\* optimizer.step(): Adam moves every parameter against the first moment of
\* its gradient; a parameter whose gradient and moment are zero stays.  An
\* embedding row moves once its token has been in a training batch; the row
\* of padding_idx never receives a gradient and never moves.  The with
\* block ends and restores the grad mode.
TrainStep ==
    /\ pc = "t_step"
    /\ LET old == optState.exp_avg
           m == [bias   |-> Moment(old.bias, grad.bias),
                 weight |-> Moment(old.weight, grad.weight),
                 rnn    |-> Moment(old.rnn, grad.rnn),
                 rows   |-> [v \in Vocab |-> Moment(old.rows[v], grad.rows[v])]]
       IN  /\ optState' = [step |-> optState.step + 1, exp_avg |-> m]
           /\ embedding' = [v \in Vocab |->
                              [d \in Dims |-> embedding[v][d] - Sign(m.rows[v])]]
           /\ wRnn' = wRnn - Sign(m.rnn)
           /\ wFc' = wFc - Sign(m.weight)
           /\ bFc' = bFc - Sign(m.bias)
    /\ gradEnabled' = TRUE
    /\ stepLog' = Append(stepLog, "step")
    /\ pc' = "t_stats"
    /\ UNCHANGED <<epoch, inputVars, gradVars, training, iterVars, outputs, loss,
                   statVars, report, fullBatches, calls>>

\* a weight that takes every batch to be a full one
LossWeightNominal(b) == BatchSize

\* the weight of a batch in the running loss: text_lengths.shape[0]
LossWeight(b) == Len(b.lengths)

\* current_loss += loss.item() * text_lengths.shape[0]
\* current_acc += torch.sum(round(sigmoid(outputs)) == batch.label.data)
Accumulate ==
    /\ current_loss' = current_loss + loss * LossWeight(batch)
    /\ current_acc' = current_acc + Correct(outputs, batch.label)
    /\ lossWeight' = lossWeight + LossWeight(batch)
    /\ counted' = [e \in DOMAIN counted |->
                     counted[e] + Cardinality({i \in 1..Len(batch.ids) : batch.ids[i] = e})]
    /\ outLog' = [e \in DOMAIN outLog |->
                    IF \E i \in 1..Len(batch.ids) : batch.ids[i] = e
                    THEN outputs.data[CHOOSE i \in 1..Len(batch.ids) : batch.ids[i] = e]
                    ELSE outLog[e]]

TrainStats ==
    /\ pc = "t_stats"
    /\ Accumulate
    /\ stepLog' = Append(stepLog, "accumulate")
    /\ fullBatches' = fullBatches + 1
    /\ pc' = "t_iter"
    /\ UNCHANGED <<epoch, inputVars, modelVars, gradVars, training, gradEnabled,
                   iterVars, outputs, loss, report, calls>>

\* total_loss = current_loss / len(data_loader.dataset); total_acc = ...; print
TrainReturn ==
    /\ pc = "t_iter"
    /\ batches = <<>>
    /\ report' = [proc |-> "train", loss_num |-> current_loss,
                  acc_num |-> current_acc, den |-> trainN]
    /\ pc' = "e_enter"
    /\ UNCHANGED <<epoch, inputVars, modelVars, gradVars, training, gradEnabled,
                   iterVars, outputs, loss, statVars, stepLog, fullBatches, calls>>

(* ----------------------------- test_model ----------------------------- *)
\* model.eval(); current_loss = 0.0; current_acc = 0; enumerate(data_loader).
\* The test iterator yields its minibatches in sorted order.
TestEnter ==
    /\ pc = "e_enter"
    /\ training' = FALSE
    /\ current_loss' = 0
    /\ current_acc' = 0
    /\ lossWeight' = 0
    /\ counted' = [i \in 1..testN |-> 0]
    /\ outLog' = [i \in 1..testN |-> 0]
    /\ batches' = Minibatches(testN, TestSet(testN))
    /\ batchNo' = 0
    /\ batch' = NoBatch
    /\ calls' = Append(calls, "test")
    /\ pc' = "e_iter"
    /\ UNCHANGED <<epoch, inputVars, modelVars, gradVars, gradEnabled, outputs,
                   loss, report, stepLog, fullBatches>>

\* for i, batch in enumerate(data_loader): the next batch
TestNext ==
    /\ pc = "e_iter"
    /\ batches # <<>>
    /\ batch' = MakeBatch(Head(batches), TestSet(testN))
    /\ batches' = Tail(batches)
    /\ batchNo' = batchNo + 1
    /\ pc' = "e_forward"
    /\ UNCHANGED <<epoch, inputVars, modelVars, gradVars, training, gradEnabled,
                   outputs, loss, statVars, report, stepLog, fullBatches, calls>>

\* text, text_lengths = batch.text; with torch.set_grad_enabled(False):
\*     outputs = model(text, text_lengths).squeeze()
TestForward ==
    /\ pc = "e_forward"
    /\ gradEnabled' = FALSE
    /\ outputs' = Squeeze(Forward(batch.text, batch.lengths))
    /\ graph' = IF gradEnabled' THEN << <<epoch, batchNo>> >> ELSE <<>>
    /\ pc' = "e_loss"
    /\ UNCHANGED <<epoch, inputVars, modelVars, grad, gradFrom, training,
                   iterVars, loss, statVars, report, stepLog, fullBatches, calls>>

\* an evaluation loop that also steps the optimizer
TestLossWithStep ==
    /\ pc = "e_loss"
    /\ IF ShapesAgree(outputs, batch.label)
       THEN /\ loss' = BCEWithLogitsLoss(outputs, batch.label)
            /\ pc' = "e_stats"
       ELSE /\ loss' = loss
            /\ pc' = "raised"
    /\ gradEnabled' = TRUE
    /\ optState' = [optState EXCEPT !.step = optState.step + 1]
    /\ bFc' = bFc - Sign(ExampleGrad(outputs.data[1], batch.label[1]))
    /\ UNCHANGED <<epoch, inputVars, embedding, wRnn, wFc, gradVars, training,
                   iterVars, outputs, statVars, report, stepLog, fullBatches, calls>>

\* loss = loss_function(outputs, batch.label); the with block ends (also by
\* the ValueError) and restores the grad mode
TestLoss ==
    /\ pc = "e_loss"
    /\ IF ShapesAgree(outputs, batch.label)
       THEN /\ loss' = BCEWithLogitsLoss(outputs, batch.label)
            /\ pc' = "e_stats"
       ELSE /\ loss' = loss
            /\ pc' = "raised"
    /\ gradEnabled' = TRUE
    /\ UNCHANGED <<epoch, inputVars, modelVars, gradVars, training, iterVars,
                   outputs, statVars, report, stepLog, fullBatches, calls>>

TestStats ==
    /\ pc = "e_stats"
    /\ Accumulate
    /\ pc' = "e_iter"
    /\ UNCHANGED <<epoch, inputVars, modelVars, gradVars, training, gradEnabled,
                   iterVars, outputs, loss, report, stepLog, fullBatches, calls>>

\* total_loss = ...; total_acc = ...; print; return total_loss, total_acc
TestReturn ==
    /\ pc = "e_iter"
    /\ batches = <<>>
    /\ report' = [proc |-> "test", loss_num |-> current_loss,
                  acc_num |-> current_acc, den |-> testN]
    /\ pc' = "epoch"
    /\ UNCHANGED <<epoch, inputVars, modelVars, gradVars, training, gradEnabled,
                   iterVars, outputs, loss, statVars, stepLog, fullBatches, calls>>

Next ==
    \/ InitCopy
    \/ InitZeroUnk
    \/ InitZeroPad
    \/ DriverSetup
    \/ DriverLoop
    \/ TrainEnter
    \/ TrainNext
    \/ TrainZeroGrad
    \/ TrainForward
    \/ TrainLoss
    \/ TrainBackward
    \/ TrainStep
    \/ TrainStats
    \/ TrainReturn
    \/ TestEnter
    \/ TestNext
    \/ TestForward
    \/ TestLoss
    \/ TestStats
    \/ TestReturn

Spec == Init /\ [][Next]_vars

(* ------------------------------- claims ------------------------------- *)
TrainPCs == {"t_iter", "t_zero", "t_forward", "t_loss", "t_backward", "t_step", "t_stats"}
TestPCs == {"e_iter", "e_forward", "e_loss", "e_stats"}

IsPrefix(s, t) == Len(s) <= Len(t) /\ s = SubSeq(t, 1, Len(s))

Last(s) == s[Len(s)]

\* the labels of the dataset the current (or last) procedure iterates over
DataOf(proc) == IF proc = "train" THEN TrainSet(trainN) ELSE TestSet(testN)

CanonSteps == <<"zero_grad", "forward", "loss", "backward", "step", "accumulate">>

\* C1: in train_model every batch of the data loader gets the six steps
\* zero_grad, forward, loss, backward, step, accumulate, in this order and
\* once each, and a batch is accumulated before the next one resets the
\* gradients: the steps done for the current batch are always an initial
\* part of that list, a batch starts only when all earlier ones are
\* complete, and when the call is over every batch of the loader is complete.
C1_SixStepsForEveryBatch ==
    /\ IsPrefix(stepLog, CanonSteps)
    /\ pc = "t_zero" => fullBatches = batchNo - 1
    /\ (calls # <<>> /\ pc \notin TrainPCs) => fullBatches = NumBatches(trainN)

\* C2: while test_model runs, no step of it changes the embedding, recurrent
\* or linear weights or the optimizer state.
C2_TestKeepsParameters ==
    [][(pc \in TestPCs \cup {"e_enter"}) => (modelVars' = modelVars)]_vars

\* test_model has gone through all its batches after the model was trained,
\* and its accumulators have changed
C2_Witness ==
    /\ pc = "e_iter"
    /\ batches = <<>>
    /\ optState.step > 0
    /\ lossWeight = testN
    /\ current_acc > 0
    /\ NumBatches(testN) > 1

Alternates(cs) ==
    \A i \in 1..Len(cs) : cs[i] = IF i % 2 = 1 THEN "train" ELSE "test"

\* C3: the driver calls train_model and test_model alternately, and a run
\* over finite iterators ends after the fifth test_model call, five epochs
\* done.
C3_FiveEpochsThenStop ==
    /\ Alternates(calls)
    /\ Len(calls) <= 2 * NumEpochs
    /\ pc \in {"done", "raised"} =>
          /\ pc = "done"
          /\ epoch = NumEpochs
          /\ Len(calls) = 2 * NumEpochs
          /\ report.proc = "test"

\* C4: once the initialisation cell has run (and until the optimizer first
\* steps) the embedding rows of the padding and the unknown token are zero
\* and every other row is the pretrained vector of its index.
C4_EmbeddingAfterInit ==
    (pc \notin {"init_copy", "init_unk", "init_pad"} /\ optState.step = 0) =>
        /\ embedding[pad_idx] = Zeros
        /\ embedding[unk_idx] = Zeros
        /\ \A v \in Vocab \ {pad_idx, unk_idx} : embedding[v] = vectors[v]

\* initialisation is over and the pretrained rows of both specials were not zero
C4_Witness ==
    /\ pc = "setup"
    /\ vectors[pad_idx] # Zeros
    /\ vectors[unk_idx] # Zeros
    /\ \E v \in Vocab \ {pad_idx, unk_idx} : vectors[v] # FreshEmbedding[v]

\* C5: whenever test_model runs in epoch k, from its call to its return, the
\* optimizer has made exactly k * B steps, B the number of batches of the
\* training iterator; so no step happens inside test_model and none is lost
\* between epochs.
C5_StepsWhenTesting ==
    (pc \in TestPCs \cup {"e_enter", "epoch", "done"} /\ epoch >= 1) =>
        optState.step = epoch * NumBatches(trainN)

\* test_model is at work in the last epoch, with several training batches
C5_Witness ==
    /\ pc = "e_stats"
    /\ epoch = NumEpochs
    /\ NumBatches(trainN) > 1
    /\ optState.step = NumEpochs * NumBatches(trainN)

\* the examples whose rounded sigmoid output equalled their label
CorrectExamples(proc) ==
    {e \in DOMAIN outLog :
        counted[e] > 0 /\ RoundSigmoid(outLog[e]) = DataOf(proc)[e].label}

\* C6: in train_model and test_model no example enters the statistics
\* twice, the accuracy counter stays between 0 and the number of examples
\* of the batches processed so far, which is also the sum of the loss
\* weights; at the end every example was counted once, the weights sum to
\* the dataset size, and the reported accuracy is the number of examples
\* whose rounded sigmoid output equalled the label over the dataset size,
\* a value between 0 and 1.
C6_EachExampleCountedOnce ==
    /\ (pc \in TrainPCs \cup TestPCs) =>
          /\ \A e \in DOMAIN counted : counted[e] <= 1
          /\ lossWeight = SeqSum(counted)
          /\ 0 <= current_acc /\ current_acc <= SeqSum(counted)
          /\ current_acc = Cardinality(CorrectExamples(Last(calls)))
    /\ (pc \in {"e_enter", "epoch", "done"} /\ calls # <<>>) =>
          /\ report.proc = Last(calls)
          /\ report.den = Len(DataOf(report.proc))
          /\ \A e \in 1..report.den : counted[e] = 1
          /\ lossWeight = report.den
          /\ report.acc_num = Cardinality(CorrectExamples(report.proc))
          /\ 0 <= report.acc_num /\ report.acc_num <= report.den

\* train_model has returned over a dataset whose last batch is a short one,
\* with some examples right and some wrong
C6_Witness ==
    /\ pc = "e_enter"
    /\ trainN % BatchSize > 1
    /\ NumBatches(trainN) > 1
    /\ 0 < report.acc_num /\ report.acc_num < report.den

\* the current batch with k more rows of padding and every padding position
\* filled with a token that depends on c, m and the position
Repad(b, k, c, m) ==
    [t \in 1..(Len(b.text) + k) |->
        [i \in 1..Len(b.lengths) |->
            IF t <= b.lengths[i] THEN b.text[t][i]
            ELSE (c + m * (t + i)) % VocabSize]]

\* C7: the output of LSTMModel.forward for a review depends only on its
\* first text_lengths[i] tokens: however the current batch is padded (more
\* padding rows, other tokens in the padding positions), every review gets
\* the same logit.
C7_PaddingIndependent ==
    batch # NoBatch =>
        \A k \in 0..MaxExtraPad, c \in Vocab, m \in 0..1 :
            Forward(Repad(batch, k, c, m), batch.lengths)
                = Forward(batch.text, batch.lengths)

\* a forward pass was made, with trained parameters, on a batch that holds
\* padding, and the embedding of a token tried as padding is not zero
C7_Witness ==
    /\ pc \in {"t_loss", "e_loss"}
    /\ optState.step > 0
    /\ \E i \in 1..Len(batch.lengths) : batch.lengths[i] < Len(batch.text)
    /\ \E v \in Vocab : SeqSum(embedding[v]) # 0
    /\ wRnn # 0 /\ wFc # 0

\* C8: for every batch size n >= 1 the squeezed model output has the shape
\* [n] of batch.label when the loss function and the comparison with the
\* labels are applied.
C8_SqueezedShapeIsLabelShape ==
    pc \in {"t_loss", "e_loss"} => outputs.shape = <<Len(batch.label)>>

\* C9: when optimizer.step() is about to run, the gradients are those of the
\* current training batch alone: one backward pass, of the forward pass of
\* this batch of this epoch; and test_model leaves no graph and no gradient.
C9_StepUsesCurrentBatchOnly ==
    /\ pc = "t_step" =>
          /\ gradFrom = << <<epoch, batchNo>> >>
          /\ grad = Gradients(batch, outputs)
    /\ pc \in {"e_loss", "e_stats", "e_iter"} => graph = <<>>

\* a step is about to run for a later batch of a later epoch, after
\* test_model has made forward passes, on a batch that leaves some
\* embedding row other than the padding row without a gradient and gives
\* another one a gradient
C9_Witness ==
    /\ pc = "t_step"
    /\ epoch >= 2
    /\ batchNo >= 2
    /\ \E v \in Vocab : grad.rows[v] = 0 /\ v # pad_idx
    /\ \E v \in Vocab : grad.rows[v] # 0

\* C10: a forward pass of train_model finds the model in training mode with
\* gradient tracking on, one of test_model finds it in evaluation mode with
\* gradient tracking off, and the driver leaves the model in evaluation mode.
C10_ModeMatchesProcedure ==
    /\ pc = "t_loss" => training /\ gradEnabled
    /\ pc = "e_loss" => ~training /\ ~gradEnabled
    /\ pc = "done" => ~training

\* train_model makes a forward pass after test_model has run
C10_Witness ==
    /\ pc = "t_loss"
    /\ epoch >= 2
    /\ training

====
